---------------------------- MODULE Spec2Model ----------------------------
(***************************************************************************)
(* Model of app.py (Fixly.dev): the Tool and Post tables, the admin create *)
(* and toggle handlers, the public views, and the three helpers slugify,   *)
(* generate_unique_slug and derive_excerpt.                                *)
(*                                                                         *)
(* A Python str is a sequence of one-character strings.  The character     *)
(* classes are those the regular expressions and str.strip() of the source *)
(* distinguish: [a-z], [0-9], whitespace, "-", upper-case letters and      *)
(* everything else.                                                        *)
(***************************************************************************)
EXTENDS Integers, Sequences, FiniteSets, Bags, TLC

VARIABLES
    tools,        \* the rows of table "tools"; a row's id is its index
    posts,        \* the rows of table "posts"; a row's id is its index
    now,          \* the clock read by datetime.utcnow(), in whole seconds
    inflight,     \* bag of requests that have read the database and not yet committed
    resp,         \* the response most recently sent
    toggle_log,   \* history: per entity, toggle requests started / done / overlapped
    base_slug,    \* generate_unique_slug: argument
    max_length,   \* generate_unique_slug: length of the slug column (0: None)
    used,         \* generate_unique_slug: the slugs model.query finds
    slug_root,    \* generate_unique_slug: local
    unique_slug,  \* generate_unique_slug: local
    index,        \* generate_unique_slug: local
    slug_pc,      \* generate_unique_slug: position ("idle", "loop", "done")
    content,      \* derive_excerpt: argument
    excerpt_max,  \* derive_excerpt: argument max_length
    excerpt,      \* derive_excerpt: returned value
    excerpt_pc    \* derive_excerpt: position ("idle", "call", "done")

vars == <<tools, posts, now, inflight, resp, toggle_log,
          base_slug, max_length, used, slug_root, unique_slug, index, slug_pc,
          content, excerpt_max, excerpt, excerpt_pc>>

appVars == <<tools, posts, now, inflight, resp, toggle_log>>
slugVars == <<base_slug, max_length, used, slug_root, unique_slug, index, slug_pc>>
excerptVars == <<content, excerpt_max, excerpt, excerpt_pc>>

---------------------------------------------------------------------------
(* Bounds of the model. *)

MaxWrites == 3      \* submissions accepted and toggles started, per behaviour
MaxClock == 1       \* the clock runs 0 .. MaxClock
MaxInflight == 1    \* requests suspended between their reads and their commit
MaxUsed == 10       \* generate_unique_slug alone: candidates already used
MaxSlugLength == 4  \* generate_unique_slug alone: max_length ranges over 0 .. MaxSlugLength
MaxContent == 5     \* derive_excerpt alone: characters of content
MaxExcerpt == 4     \* derive_excerpt alone: max_length ranges over 0 .. MaxExcerpt

---------------------------------------------------------------------------
(* Column lengths declared by the models (db.String(n)). *)

ToolTitleLength == 140
ToolSlugLength == 160
ToolSummaryLength == 280
PostTitleLength == 160
PostSlugLength == 180
PostExcerptLength == 280
DefaultExcerptLength == 200
HomePostLimit == 3

---------------------------------------------------------------------------
(* Characters and Python string primitives. *)

LowerLetters == {"a", "b", "c", "d", "e", "f", "g", "h", "i", "j", "k", "l", "m",
                 "n", "o", "p", "q", "r", "s", "t", "u", "v", "w", "x", "y", "z"}
DigitChars == <<"0", "1", "2", "3", "4", "5", "6", "7", "8", "9">>
Whitespace == {" ", "\n", "\t"}

IsDigit(c) == \E i \in 1..10 : DigitChars[i] = c
IsSpace(c) == c \in Whitespace

Min(a, b) == IF a <= b THEN a ELSE b
Max(a, b) == IF a >= b THEN a ELSE b

\* str.lower() on one character
LowerChar(c) ==
    CASE c = "A" -> "a"
      [] c = "B" -> "b"
      [] c = "C" -> "c"
      [] c = "S" -> "s"
      [] OTHER -> c

Lower(s) == [i \in 1..Len(s) |-> LowerChar(s[i])]

\* s[:n], with Python's reading of a negative n
Slice(s, n) ==
    IF n >= 0 THEN SubSeq(s, 1, Min(n, Len(s)))
    ELSE SubSeq(s, 1, Max(0, Len(s) + n))

\* s.strip(chars): drop the leading and trailing characters that are in chars
RECURSIVE SkipLeft(_, _, _)
SkipLeft(s, chars, i) ==
    IF i <= Len(s) /\ s[i] \in chars THEN SkipLeft(s, chars, i + 1) ELSE i

RECURSIVE SkipRight(_, _, _)
SkipRight(s, chars, i) ==
    IF i >= 1 /\ s[i] \in chars THEN SkipRight(s, chars, i - 1) ELSE i

StripChars(s, chars) == SubSeq(s, SkipLeft(s, chars, 1), SkipRight(s, chars, Len(s)))

\* s.strip()
Strip(s) == StripChars(s, Whitespace)

\* str(n) for n >= 0
RECURSIVE ToStr(_)
ToStr(n) ==
    IF n < 10 THEN <<DigitChars[n + 1]>>
    ELSE ToStr(n \div 10) \o <<DigitChars[(n % 10) + 1]>>

\* s * n
Repeat(s, n) == [i \in 1..(n * Len(s)) |-> s[((i - 1) % Len(s)) + 1]]

---------------------------------------------------------------------------
(* slugify *)

\* re.sub(r"[^a-z0-9\s-]", "", value)
RemoveNonSlugChars(s) ==
    SelectSeq(s, LAMBDA c : c \in LowerLetters \/ IsDigit(c) \/ IsSpace(c) \/ c = "-")

IsSeparator(c) == IsSpace(c) \/ c = "-"

\* re.sub(r"[\s-]+", "-", slug): each maximal run of separators becomes one "-"
CollapseSeparators(s) ==
    LET marked == [i \in 1..Len(s) |->
                      IF ~IsSeparator(s[i]) THEN s[i]
                      ELSE IF i > 1 /\ IsSeparator(s[i - 1]) THEN "" ELSE "-"]
    IN  SelectSeq(marked, LAMBDA c : c /= "")

\* f"{fallback_prefix}-{int(datetime.utcnow().timestamp())}"
FallbackSlug(fallback_prefix, timestamp) == fallback_prefix \o <<"-">> \o ToStr(timestamp)

\* Mutant of SlugifyStrict: the .strip("-") is missing.
SlugifyUnstripped(value) == CollapseSeparators(RemoveNonSlugChars(Lower(value)))

SlugifyStrict(value) ==
    StripChars(CollapseSeparators(RemoveNonSlugChars(Lower(value))), {"-"})

slugify(value, fallback_prefix, timestamp) ==
    LET slug == SlugifyStrict(value)
    IN  IF slug = << >> THEN FallbackSlug(fallback_prefix, timestamp) ELSE slug

---------------------------------------------------------------------------
(* generate_unique_slug *)

\* slug_root = base_slug[:max_length] if max_length else base_slug
SlugRoot(base, maxlen) == IF maxlen /= 0 THEN Slice(base, maxlen) ELSE base

\* suffix = f"-{index}"
Suffix(i) == <<"-">> \o ToStr(i)

\* Mutant of TrimmedCandidate: the suffix is appended to the untrimmed root.
UntrimmedCandidate(root, maxlen, i) == root \o Suffix(i)

\* the body of the while loop: the candidate formed for counter value i
TrimmedCandidate(root, maxlen, i) ==
    LET suffix == Suffix(i)
        trimmed_root == IF maxlen /= 0 THEN Slice(root, maxlen - Len(suffix)) ELSE root
    IN  trimmed_root \o suffix

\* the loop condition: model.query.filter_by(slug=unique_slug).first() is not None
SlugExists(slugs, slug) == slug \in slugs

\* Mutant of FirstIndex: the counter starts at 0.
FirstIndexZero == 1 - 1

\* index = 1
FirstIndex == 1

\* Mutant of NextIndex: the increment is missing.
NextIndexStuck(i) == i

\* index += 1
NextIndex(i) == i + 1

RECURSIVE UniqueSlugLoop(_, _, _, _, _)
UniqueSlugLoop(slugs, root, maxlen, slug, i) ==
    IF SlugExists(slugs, slug)
    THEN UniqueSlugLoop(slugs, root, maxlen, TrimmedCandidate(root, maxlen, i),
                        NextIndex(i))
    ELSE slug

generate_unique_slug(slugs, maxlen, base) ==
    LET root == SlugRoot(base, maxlen)
    IN  UniqueSlugLoop(slugs, root, maxlen, root, FirstIndex)

---------------------------------------------------------------------------
(* derive_excerpt *)

\* Mutant of RSplitHead: split(" ", 1)[0], the text before its first space.
SplitHead(text) ==
    LET spaces == {i \in 1..Len(text) : text[i] = " "}
    IN  IF spaces = {} THEN text
        ELSE SubSeq(text, 1, (CHOOSE i \in spaces : \A j \in spaces : i <= j) - 1)

\* text.rsplit(" ", 1)[0]: the text before its last space, or all of it
RSplitHead(text) ==
    LET spaces == {i \in 1..Len(text) : text[i] = " "}
    IN  IF spaces = {} THEN text
        ELSE SubSeq(text, 1, (CHOOSE i \in spaces : \A j \in spaces : j <= i) - 1)

derive_excerpt(text, maxlen) ==
    LET excerpt_candidate == Strip(text)
    IN  IF Len(excerpt_candidate) <= maxlen THEN excerpt_candidate
        ELSE LET truncated == RSplitHead(Slice(excerpt_candidate, maxlen))
             IN  IF truncated /= << >> THEN truncated
                 ELSE Slice(excerpt_candidate, maxlen)

---------------------------------------------------------------------------
(* The database: tables, queries, constraints. *)

Kinds == {"Tool", "Post"}

Table(kind) == IF kind = "Tool" THEN tools ELSE posts

Ids(rows) == 1..Len(rows)

\* every value of column slug
Slugs(rows) == {rows[i].slug : i \in Ids(rows)}

\* Mutant of UniqueViolation: the column is declared without unique=True.
UniqueViolationNever(rows, slug) == FALSE

\* slug = db.Column(..., unique=True): the INSERT fails when the slug is taken
UniqueViolation(rows, slug) == slug \in Slugs(rows)

\* Mutant of PublishedIds: the filter_by(is_published=True) is missing.
AllIds(rows) == 1..Len(rows)

\* filter_by(is_published=True)
PublishedIds(rows) == {i \in Ids(rows) : rows[i].is_published}

\* order_by(created_at.desc()): the orders the database may return the rows
\* `ids' in; rows of equal created_at come in either order
OrderByCreatedDesc(rows, ids) ==
    {order \in [1..Cardinality(ids) -> ids] :
        /\ \A i, j \in DOMAIN order : i < j => order[i] /= order[j]
        /\ \A i, j \in DOMAIN order :
              i < j => rows[order[i]].created_at >= rows[order[j]].created_at}

\* filter_by(slug=slug, is_published=True)
PublishedWithSlug(rows, slug) ==
    {i \in Ids(rows) : rows[i].slug = slug /\ rows[i].is_published}

\* Mutant of NegatedFlag: the toggle always hides.
AlwaysHidden(read) == FALSE

\* tool.is_published = not tool.is_published, on the value the request read
NegatedFlag(read) == ~read

Creates == {r \in BagToSet(inflight) : r.op = "create"}
InflightCreates ==
    LET n[S \in SUBSET Creates] ==
            IF S = {} THEN 0
            ELSE LET r == CHOOSE r \in S : TRUE
                 IN  CopiesIn(r, inflight) + n[S \ {r}]
    IN  n[Creates]

TogglesStarted ==
    LET count(log) ==
            LET n[i \in 0..Len(log)] == IF i = 0 THEN 0 ELSE log[i].started + n[i - 1]
            IN  n[Len(log)]
    IN  count(toggle_log.Tool) + count(toggle_log.Post)

---------------------------------------------------------------------------
(* Form input. *)

Title1 == <<"-", "A", " ", " ", "b", "!">>          \* slug "a-b"
Title2 == <<" ", "a", "\t", "B", "-", "1", " ">>    \* slug "a-b-1"
Title3 == <<"!", "?">>                               \* no slug character: fallback
Blank == <<" ", "\n">>
LongContent == Repeat(<<"c", "d", " ">>, 94)         \* 282 characters

ToolForms ==
    {[title |-> t, summary |-> <<"s">>, content |-> <<"c">>] :
        t \in {Title1, Title2, Title3, Blank, Repeat(<<"a">>, ToolTitleLength + 1)}}
    \cup {[title |-> Title1, summary |-> s, content |-> <<"c">>] :
        s \in {<< >>, Repeat(<<"s">>, ToolSummaryLength + 1)}}
    \cup {[title |-> Title1, summary |-> <<"s">>, content |-> Blank],
          [title |-> << >>, summary |-> << >>, content |-> << >>]}

PostForms ==
    {[title |-> t, excerpt |-> <<"e">>, content |-> <<"c", " ", "d">>] :
        t \in {Title1, Blank, Repeat(<<"a">>, PostTitleLength + 1)}}
    \cup {[title |-> Title3, excerpt |-> Blank, content |-> LongContent]}
    \cup {[title |-> Title1, excerpt |-> Repeat(<<"e">>, PostExcerptLength + 1),
           content |-> <<"c">>],
          [title |-> Title1, excerpt |-> <<"e">>, content |-> << >>],
          [title |-> Title1, excerpt |-> << >>, content |-> Blank]}

UnknownSlug == <<"z">>

---------------------------------------------------------------------------
(* Validation in admin_tools and admin_posts. *)

ToolTitleErrors(title) ==
    IF title = << >> THEN <<"Please provide a title for your tool.">>
    ELSE IF ToolTitleLength /= 0 /\ Len(title) > ToolTitleLength
         THEN <<"Tool titles must be 140 characters or fewer.">>
         ELSE << >>

ToolSummaryErrors(summary) ==
    IF summary = << >> THEN <<"Share a short summary to highlight what the tool does.">>
    ELSE IF ToolSummaryLength /= 0 /\ Len(summary) > ToolSummaryLength
         THEN <<"Summaries must be 280 characters or fewer.">>
         ELSE << >>

\* Mutant of ToolContentErrors: the check of the content is missing.
ToolContentUnchecked(text) == << >>

ToolContentErrors(text) ==
    IF text = << >> THEN <<"Add longer-form content so your launch page feels complete.">>
    ELSE << >>

ToolErrors(form_data) ==
    ToolTitleErrors(form_data.title) \o ToolSummaryErrors(form_data.summary)
        \o ToolContentErrors(form_data.content)

PostTitleErrors(title) ==
    IF title = << >> THEN <<"Posts need a title before publishing.">>
    ELSE IF PostTitleLength /= 0 /\ Len(title) > PostTitleLength
         THEN <<"Post titles must be 160 characters or fewer.">>
         ELSE << >>

PostContentErrors(text) ==
    IF text = << >>
    THEN <<"Write your article content so readers have something to explore.">>
    ELSE << >>

\* excerpt_value: the excerpt given, or derived from the content
ExcerptValue(form_data) ==
    IF form_data.excerpt = << >> /\ form_data.content /= << >>
    THEN derive_excerpt(form_data.content,
                        IF PostExcerptLength /= 0 THEN PostExcerptLength
                        ELSE DefaultExcerptLength)
    ELSE form_data.excerpt

PostExcerptErrors(excerpt_value) ==
    IF PostExcerptLength /= 0 /\ Len(excerpt_value) > PostExcerptLength
    THEN <<"Excerpts must be 280 characters or fewer.">>
    ELSE << >>

PostErrors(form_data) ==
    PostTitleErrors(form_data.title) \o PostContentErrors(form_data.content)
        \o PostExcerptErrors(ExcerptValue(form_data))

---------------------------------------------------------------------------
(* The submissions. *)

\* request.form as admin_tools reads and validates it: form_data and errors
ToolSubmissions ==
    {LET form_data == [title |-> Strip(form.title),
                       summary |-> Strip(form.summary),
                       content |-> Strip(form.content)]
     IN  [form_data |-> form_data, errors |-> ToolErrors(form_data)] :
        form \in ToolForms}

\* request.form as admin_posts reads and validates it: form_data (the excerpt
\* as given), excerpt_value and errors
PostSubmissions ==
    {LET form_data == [title |-> Strip(form.title),
                       excerpt |-> Strip(form.excerpt),
                       content |-> Strip(form.content)]
     IN  [form_data |-> form_data, excerpt_value |-> ExcerptValue(form_data),
          errors |-> PostErrors(form_data)] :
        form \in PostForms}

---------------------------------------------------------------------------
(* The application.  A handler that writes has two parts, its reads        *)
(* (validation, the slug queries, get_or_404) and its db.session.commit(). *)
(* A request either runs both in one step or is suspended between them,    *)
(* and then requests of other clients run before it commits.  The queries  *)
(* of generate_unique_slug are taken at the instant of its last query:     *)
(* rows are never deleted and slugs never change, so a candidate found     *)
(* used earlier is still used then.                                        *)

IdleSlug ==
    /\ base_slug = << >> /\ max_length = 0 /\ used = {} /\ slug_root = << >>
    /\ unique_slug = << >> /\ index = 0 /\ slug_pc = "idle"

IdleExcerpt ==
    /\ content = << >> /\ excerpt_max = 0 /\ excerpt = << >> /\ excerpt_pc = "idle"

\* ensure_database_setup(): db.create_all() on an empty database
Init ==
    /\ tools = << >>
    /\ posts = << >>
    /\ now = 0
    /\ inflight = EmptyBag
    /\ resp = [kind |-> "none"]
    /\ toggle_log = [Tool |-> << >>, Post |-> << >>]
    /\ IdleSlug
    /\ IdleExcerpt

NoLog == [started |-> 0, done |-> 0, overlapped |-> FALSE]

LogStarted(log, kind, id) ==
    [log EXCEPT ![kind][id] =
        [@ EXCEPT !.started = @ + 1,
                  !.overlapped = @ \/ log[kind][id].started > log[kind][id].done]]

LogDone(log, kind, id) == [log EXCEPT ![kind][id].done = @ + 1]

CanWrite == Len(tools) + Len(posts) + InflightCreates + TogglesStarted < MaxWrites

CanSuspend == BagCardinality(inflight) < MaxInflight

\* db.session.add(row); db.session.commit(): the INSERT, created_at defaulting
\* to datetime.utcnow.  A violated unique constraint raises IntegrityError,
\* which no handler catches.  Otherwise flash(...) and redirect(...).
InsertAndRedirect(req) ==
    IF UniqueViolation(Table(req.kind), req.row.slug)
    THEN /\ resp' = [kind |-> "unhandled", error |-> "IntegrityError", of |-> req.kind]
         /\ UNCHANGED <<tools, posts, toggle_log>>
    ELSE LET row == [f \in DOMAIN req.row \cup {"created_at"} |->
                        IF f = "created_at" THEN now ELSE req.row[f]]
         IN  /\ IF req.kind = "Tool"
                THEN tools' = Append(tools, row) /\ UNCHANGED posts
                ELSE posts' = Append(posts, row) /\ UNCHANGED tools
             /\ toggle_log' = [toggle_log EXCEPT ![req.kind] = Append(@, NoLog)]
             /\ resp' = [kind |-> "redirect", of |-> req.kind, flash |-> "is live"]

\* the rest of a handler from the reads on: run now, or after other requests
Proceed(req, commit(_)) ==
    \/ /\ inflight' = inflight
       /\ commit(req)
    \/ /\ CanSuspend
       /\ inflight' = inflight (+) SetToBag({req})
       /\ UNCHANGED <<tools, posts, resp, toggle_log>>

\* POST /admin/tools
admin_tools(submission) ==
    LET form_data == submission.form_data
        errors == submission.errors
    IN  /\ IF errors /= << >>
           THEN /\ resp' = [kind |-> "form", of |-> "Tool", errors |-> errors]
                /\ UNCHANGED <<tools, posts, inflight, toggle_log>>
           ELSE /\ CanWrite
                /\ LET base == slugify(form_data.title, <<"t", "o", "o", "l">>, now)
                       slug == generate_unique_slug(Slugs(tools), ToolSlugLength, base)
                       tool == [title |-> form_data.title, summary |-> form_data.summary,
                                content |-> form_data.content, slug |-> slug,
                                is_published |-> TRUE]
                   IN  Proceed([op |-> "create", kind |-> "Tool", row |-> tool],
                               InsertAndRedirect)
        /\ UNCHANGED <<now, slugVars, excerptVars>>

\* POST /admin/posts
admin_posts(submission) ==
    LET form_data == submission.form_data
        excerpt_value == submission.excerpt_value
        errors == submission.errors
    IN  /\ IF errors /= << >>
           THEN /\ resp' = [kind |-> "form", of |-> "Post", errors |-> errors]
                /\ UNCHANGED <<tools, posts, inflight, toggle_log>>
           ELSE /\ CanWrite
                /\ LET base == slugify(form_data.title, <<"p", "o", "s", "t">>, now)
                       slug == generate_unique_slug(Slugs(posts), PostSlugLength, base)
                       post == [title |-> form_data.title, excerpt |-> excerpt_value,
                                content |-> form_data.content, slug |-> slug,
                                is_published |-> TRUE]
                   IN  Proceed([op |-> "create", kind |-> "Post", row |-> post],
                               InsertAndRedirect)
        /\ UNCHANGED <<now, slugVars, excerptVars>>

\* a suspended admin_tools / admin_posts resumes at db.session.commit()
commit_create(req) ==
    /\ req.op = "create"
    /\ BagIn(req, inflight)
    /\ inflight' = inflight (-) SetToBag({req})
    /\ InsertAndRedirect(req)
    /\ UNCHANGED <<now, slugVars, excerptVars>>

\* tool.is_published = not tool.is_published; db.session.commit(): the UPDATE
\* writes the negation of the value the request read.  Then flash, redirect.
UpdateAndRedirect(req) ==
    /\ IF req.kind = "Tool"
       THEN /\ tools' = [tools EXCEPT ![req.id].is_published = NegatedFlag(req.read)]
            /\ UNCHANGED posts
       ELSE /\ posts' = [posts EXCEPT ![req.id].is_published = NegatedFlag(req.read)]
            /\ UNCHANGED tools
    /\ resp' = [kind |-> "redirect", of |-> req.kind,
                flash |-> IF NegatedFlag(req.read) THEN "published" ELSE "hidden"]

\* POST /admin/tools/<id>/toggle and POST /admin/posts/<id>/toggle
toggle(kind, id) ==
    /\ IF id \notin Ids(Table(kind))
       THEN /\ resp' = [kind |-> "not_found", view |-> "toggle", of |-> kind, id |-> id]
            /\ UNCHANGED <<tools, posts, inflight, toggle_log>>
       ELSE /\ CanWrite
            /\ LET req == [op |-> "toggle", kind |-> kind, id |-> id,
                           read |-> Table(kind)[id].is_published]
                   started == LogStarted(toggle_log, kind, id)
               IN  \/ /\ inflight' = inflight
                      /\ UpdateAndRedirect(req)
                      /\ toggle_log' = LogDone(started, kind, id)
                   \/ /\ CanSuspend
                      /\ inflight' = inflight (+) SetToBag({req})
                      /\ toggle_log' = started
                      /\ UNCHANGED <<tools, posts, resp>>
    /\ UNCHANGED <<now, slugVars, excerptVars>>

toggle_tool(tool_id) == toggle("Tool", tool_id)

toggle_post(post_id) == toggle("Post", post_id)

\* a suspended toggle_tool / toggle_post resumes at db.session.commit()
commit_toggle(req) ==
    /\ req.op = "toggle"
    /\ BagIn(req, inflight)
    /\ inflight' = inflight (-) SetToBag({req})
    /\ UpdateAndRedirect(req)
    /\ toggle_log' = LogDone(toggle_log, req.kind, req.id)
    /\ UNCHANGED <<now, slugVars, excerptVars>>

\* GET /
home ==
    /\ \E tool_order \in OrderByCreatedDesc(tools, PublishedIds(tools)) :
       \E post_order \in OrderByCreatedDesc(posts, PublishedIds(posts)) :
           resp' = [kind |-> "home", tools |-> tool_order,
                    posts |-> Slice(post_order, HomePostLimit)]
    /\ UNCHANGED <<tools, posts, now, inflight, toggle_log, slugVars, excerptVars>>

\* GET /tools/<slug>
tool_detail(slug) ==
    /\ LET found == PublishedWithSlug(tools, slug)
       IN  IF found = {}
           THEN resp' = [kind |-> "not_found", view |-> "tool_detail", slug |-> slug]
           ELSE \E id \in found :
                    resp' = [kind |-> "tool_detail", id |-> id, slug |-> slug]
    /\ UNCHANGED <<tools, posts, now, inflight, toggle_log, slugVars, excerptVars>>

\* GET /blog
blog_index ==
    /\ \E post_order \in OrderByCreatedDesc(posts, PublishedIds(posts)) :
           resp' = [kind |-> "blog_index", posts |-> post_order]
    /\ UNCHANGED <<tools, posts, now, inflight, toggle_log, slugVars, excerptVars>>

\* GET /blog/<slug>
blog_detail(slug) ==
    /\ LET found == PublishedWithSlug(posts, slug)
       IN  IF found = {}
           THEN resp' = [kind |-> "not_found", view |-> "blog_detail", slug |-> slug]
           ELSE \E id \in found :
                    resp' = [kind |-> "blog_detail", id |-> id, slug |-> slug]
    /\ UNCHANGED <<tools, posts, now, inflight, toggle_log, slugVars, excerptVars>>

\* a second passes
Tick ==
    /\ now < MaxClock
    /\ now' = now + 1
    /\ UNCHANGED <<tools, posts, inflight, resp, toggle_log, slugVars, excerptVars>>

Next ==
    \/ \E submission \in ToolSubmissions : admin_tools(submission)
    \/ \E submission \in PostSubmissions : admin_posts(submission)
    \/ \E req \in BagToSet(inflight) : commit_create(req)
    \/ \E id \in 1..(Len(tools) + 1) : toggle_tool(id)
    \/ \E id \in 1..(Len(posts) + 1) : toggle_post(id)
    \/ \E req \in BagToSet(inflight) : commit_toggle(req)
    \/ home
    \/ \E slug \in Slugs(tools) \cup {UnknownSlug} : tool_detail(slug)
    \/ blog_index
    \/ \E slug \in Slugs(posts) \cup {UnknownSlug} : blog_detail(slug)
    \/ Tick

Spec == Init /\ [][Next]_vars

---------------------------------------------------------------------------
(* generate_unique_slug alone, one step per evaluation of the loop         *)
(* condition, on a base slug, a column length and a set of used slugs.     *)

IdleApp ==
    /\ tools = << >> /\ posts = << >> /\ now = 0 /\ inflight = EmptyBag
    /\ resp = [kind |-> "none"] /\ toggle_log = [Tool |-> << >>, Post |-> << >>]

SlugBases ==
    {<<"a">>, <<"a", "b">>, <<"a", "-", "b">>, <<"a", "-", "b", "c">>,
     <<"a", "b", "c", "d", "e">>}

\* the candidate the loop forms k-th: the root itself, then root-1, root-2, ...
Candidate(root, maxlen, k) ==
    IF k = 0 THEN root ELSE TrimmedCandidate(root, maxlen, FirstIndex + k - 1)

\* stores holding the first n candidates, or those but one
UsedChoices(base, maxlen) ==
    LET root == SlugRoot(base, maxlen)
    IN  {{Candidate(root, maxlen, k) : k \in (0..(n - 1)) \ {gap}} :
            n \in 0..MaxUsed, gap \in 0..MaxUsed}

SlugInit ==
    /\ base_slug \in SlugBases
    /\ max_length \in 0..MaxSlugLength
    /\ used \in UsedChoices(base_slug, max_length)
    /\ slug_root = << >>
    /\ unique_slug = << >>
    /\ index = 0
    /\ slug_pc = "call"
    /\ IdleApp
    /\ IdleExcerpt

\* slug_root = ...; unique_slug = slug_root; index = 1
SlugEnter ==
    /\ slug_pc = "call"
    /\ slug_root' = SlugRoot(base_slug, max_length)
    /\ unique_slug' = slug_root'
    /\ index' = FirstIndex
    /\ slug_pc' = "loop"
    /\ UNCHANGED <<base_slug, max_length, used, appVars, excerptVars>>

\* one pass of the while loop
SlugLoopStep ==
    /\ slug_pc = "loop"
    /\ SlugExists(used, unique_slug)
    /\ unique_slug' = TrimmedCandidate(slug_root, max_length, index)
    /\ index' = NextIndex(index)
    /\ UNCHANGED <<base_slug, max_length, used, slug_root, slug_pc, appVars, excerptVars>>

\* return unique_slug
SlugReturn ==
    /\ slug_pc = "loop"
    /\ ~SlugExists(used, unique_slug)
    /\ slug_pc' = "done"
    /\ UNCHANGED <<base_slug, max_length, used, slug_root, unique_slug, index,
                   appVars, excerptVars>>

SlugNext == SlugEnter \/ SlugLoopStep \/ SlugReturn

SlugSpec == SlugInit /\ [][SlugNext]_vars

\* a call that has started keeps running
SlugLive == SlugSpec /\ WF_vars(SlugNext)

---------------------------------------------------------------------------
(* derive_excerpt alone, on every content of at most MaxContent characters *)
(* and every max_length up to MaxExcerpt.                                  *)

ExcerptChars == {"a", " ", "\n"}

Contents == UNION {[1..n -> ExcerptChars] : n \in 0..MaxContent}

ExcerptInit ==
    /\ content \in Contents
    /\ excerpt_max \in 0..MaxExcerpt
    /\ excerpt = << >>
    /\ excerpt_pc = "call"
    /\ IdleApp
    /\ IdleSlug

DeriveExcerpt ==
    /\ excerpt_pc = "call"
    /\ excerpt' = derive_excerpt(content, excerpt_max)
    /\ excerpt_pc' = "done"
    /\ UNCHANGED <<content, excerpt_max, appVars, slugVars>>

ExcerptNext == DeriveExcerpt

ExcerptSpec == ExcerptInit /\ [][ExcerptNext]_vars

---------------------------------------------------------------------------
(* Properties. *)

SlugLength(kind) == IF kind = "Tool" THEN ToolSlugLength ELSE PostSlugLength

FallbackPrefix(kind) ==
    IF kind = "Tool" THEN <<"t", "o", "o", "l">> ELSE <<"p", "o", "s", "t">>

\* lowercase letters, digits and single hyphens, none leading or trailing
WellFormedSlug(slug) ==
    /\ slug /= << >>
    /\ \A i \in 1..Len(slug) : slug[i] \in LowerLetters \/ IsDigit(slug[i]) \/ slug[i] = "-"
    /\ slug[1] /= "-"
    /\ slug[Len(slug)] /= "-"
    /\ \A i \in 1..(Len(slug) - 1) : ~(slug[i] = "-" /\ slug[i + 1] = "-")

\* C1: no two rows of one table have the same slug, in any reachable state;
\* a Tool and a Post may share one.
SlugsUniquePerType ==
    \A kind \in Kinds :
        \A i, j \in Ids(Table(kind)) :
            i /= j => Table(kind)[i].slug /= Table(kind)[j].slug

\* C1 witness: two tools submitted under one title hold different slugs,
\* and a post holds the slug of a tool.
SameTitleTwiceAndSharedAcrossTypes ==
    /\ \E i, j \in Ids(tools) : i /= j /\ tools[i].title = tools[j].title
    /\ \E k \in Ids(posts) : posts[k].slug \in Slugs(tools)

\* C2: an INSERT that violates the unique constraint is caught and recovered
\* from (retried with a re-resolved slug, or surfaced as a handled conflict):
\* no create request ends in an unhandled IntegrityError.
ConstraintViolationRecovered == resp.kind /= "unhandled"

\* every string the title field can hold after request.form.get: the forms
\* of the model and every string of up to three characters of each class
SlugifyAlphabet == {"a", "B", "1", " ", "\t", "-", "!"}
SlugifyInputs ==
    UNION {[1..n -> SlugifyAlphabet] : n \in 0..3}
        \cup {f.title : f \in ToolForms} \cup {f.title : f \in PostForms}

SlugifyOutputsWellFormed ==
    \A value \in SlugifyInputs : \A kind \in Kinds : \A timestamp \in 0..MaxClock :
        WellFormedSlug(slugify(value, FallbackPrefix(kind), timestamp))

\* C3: slugify returns a well-formed slug for every input, and every slug
\* persisted (with or without a "-N" suffix) is well formed.
SlugsWellFormed ==
    /\ SlugifyOutputsWellFormed
    /\ \A kind \in Kinds : \A i \in Ids(Table(kind)) : WellFormedSlug(Table(kind)[i].slug)

\* C3 witness: a row persisted with a disambiguating suffix and a row
\* persisted with a fallback slug.
SuffixedAndFallbackSlugPersisted ==
    /\ \E i \in Ids(tools) :
          /\ tools[i].slug = SlugifyStrict(tools[i].title) \o Suffix(1)
    /\ \E i \in Ids(tools) : SlugifyStrict(tools[i].title) = << >>

PossibleBases(kind, row) ==
    IF SlugifyStrict(row.title) /= << >> THEN {SlugifyStrict(row.title)}
    ELSE {FallbackSlug(FallbackPrefix(kind), t) : t \in 0..row.created_at}

\* slug is the first of root, root-1, root-2, ... that is not in taken
FirstUnusedCandidate(slug, base, maxlen, taken) ==
    \E k \in 0..Cardinality(taken) :
        /\ slug = (IF k = 0 THEN SlugRoot(base, maxlen)
                   ELSE TrimmedCandidate(SlugRoot(base, maxlen), maxlen, k))
        /\ slug \notin taken
        /\ SlugRoot(base, maxlen) \in taken \/ k = 0
        /\ \A j \in 1..(k - 1) :
              TrimmedCandidate(SlugRoot(base, maxlen), maxlen, j) \in taken

\* C5 (amended): every row holds the first of base, base-1, base-2, ... that
\* no earlier row of its table holds.
PersistedSlugIsFirstUnused ==
    \A kind \in Kinds : \A i \in Ids(Table(kind)) :
        LET rows == Table(kind)
            before == {rows[j].slug : j \in 1..(i - 1)}
        IN  \E base \in PossibleBases(kind, rows[i]) :
                FirstUnusedCandidate(rows[i].slug, base, SlugLength(kind), before)

\* C5 witness: a title was submitted twice and its second row holds
\* base-2, base-1 being held by a row of another title.
SecondSubmissionSkipsTakenSuffix ==
    \E i, j, k \in Ids(tools) :
        /\ i < k /\ j < k
        /\ tools[i].title = tools[k].title
        /\ tools[j].title /= tools[k].title
        /\ tools[i].slug = SlugifyStrict(tools[k].title)
        /\ tools[j].slug = tools[i].slug \o Suffix(1)
        /\ tools[k].slug = tools[i].slug \o Suffix(2)

\* C5 (as claimed): when the first row of a title found its base unused, the
\* rows of that title hold base, base-1, base-2, ... in the order persisted.
SameTitleSlugsInOrder ==
    \A kind \in Kinds : \A i \in Ids(Table(kind)) :
        LET rows == Table(kind)
            base == SlugifyStrict(rows[i].title)
            same == {j \in Ids(rows) : rows[j].title = rows[i].title}
            first == CHOOSE j \in same : \A l \in same : j <= l
            nth == Cardinality({j \in same : j < i})
        IN  (base /= << >> /\ base \notin {rows[j].slug : j \in 1..(first - 1)})
                => rows[i].slug = (IF nth = 0 THEN base ELSE base \o Suffix(nth))

\* C6: a call of generate_unique_slug on a finite store, with a column
\* length of at least the suffix width (or none), returns.
SlugLoopTerminates ==
    (max_length = 0 \/ max_length >= Len(Suffix(FirstIndex))) => <>(slug_pc = "done")

\* C6 witness: the call returned after more than one pass of the loop,
\* under a column length.
ReturnedAfterSeveralPasses ==
    /\ slug_pc = "done"
    /\ max_length >= Len(Suffix(FirstIndex))
    /\ index > FirstIndex + 1

\* text is source without its leading and trailing whitespace
IsTrimOf(text, source) ==
    \E i \in 1..(Len(source) + 1) : \E j \in 0..Len(source) :
        /\ text = SubSeq(source, i, j)
        /\ \A k \in 1..(i - 1) : source[k] \in Whitespace
        /\ \A k \in (j + 1)..Len(source) : source[k] \in Whitespace
        /\ text = << >> \/ (text[1] \notin Whitespace /\ text[Len(text)] \notin Whitespace)

\* result is window cut before its last character of `boundary', or window
\* itself when it holds none
CutAtLast(result, window, boundary) ==
    IF \E i \in 1..Len(window) : window[i] \in boundary
    THEN \E i \in 1..Len(window) :
            /\ window[i] \in boundary
            /\ \A j \in (i + 1)..Len(window) : window[j] \notin boundary
            /\ result = SubSeq(window, 1, i - 1)
    ELSE result = window

ExcerptCutAt(boundary) ==
    excerpt_pc = "done" =>
        \E trimmed \in {SubSeq(content, i, j) : i \in 1..(Len(content) + 1),
                                                 j \in 0..Len(content)} :
            /\ IsTrimOf(trimmed, content)
            /\ Len(trimmed) <= excerpt_max => excerpt = trimmed
            /\ Len(trimmed) > excerpt_max =>
                  CutAtLast(excerpt, SubSeq(trimmed, 1, excerpt_max), boundary)
            /\ Len(excerpt) <= excerpt_max
            /\ excerpt = SubSeq(trimmed, 1, Len(excerpt))

\* C7 (amended): the excerpt is the trimmed content when that fits, else its
\* first max_length characters cut before the last space (U+0020) among
\* them, or uncut when there is no space; always a prefix of the trimmed
\* content of at most max_length characters.
ExcerptCutAtLastSpace == ExcerptCutAt({" "})

\* C7 witness: a content longer than max_length whose window holds a
\* newline after its last space was cut at the space.
ExcerptCutAtSpaceNotNewline ==
    /\ excerpt_pc = "done"
    /\ Len(Strip(content)) > excerpt_max
    /\ \E i, j \in 1..excerpt_max :
          /\ i < j
          /\ Strip(content)[i] = " "
          /\ Strip(content)[j] = "\n"
          /\ Len(excerpt) = i - 1

\* C7 (as claimed): the cut is at the last whitespace character of any kind.
ExcerptCutAtLastWhitespace == ExcerptCutAt(Whitespace)

NewestFirst(rows, order) ==
    \A i, j \in DOMAIN order :
        i < j => rows[order[i]].created_at >= rows[order[j]].created_at

OnlyPublished(rows, order) ==
    \A i \in DOMAIN order : order[i] \in Ids(rows) /\ rows[order[i]].is_published

\* C8: the listings return published rows only, newest first; a detail view
\* returns a row only if it is published and has the slug asked for, and
\* answers not-found only if no published row has it.
PublicViewsShowPublishedOnly ==
    /\ resp.kind = "home" =>
          /\ OnlyPublished(tools, resp.tools) /\ NewestFirst(tools, resp.tools)
          /\ OnlyPublished(posts, resp.posts) /\ NewestFirst(posts, resp.posts)
    /\ resp.kind = "blog_index" =>
          OnlyPublished(posts, resp.posts) /\ NewestFirst(posts, resp.posts)
    /\ resp.kind = "tool_detail" =>
          /\ resp.id \in Ids(tools)
          /\ tools[resp.id].is_published
          /\ tools[resp.id].slug = resp.slug
    /\ resp.kind = "blog_detail" =>
          /\ resp.id \in Ids(posts)
          /\ posts[resp.id].is_published
          /\ posts[resp.id].slug = resp.slug
    /\ (resp.kind = "not_found" /\ resp.view = "tool_detail") =>
          ~\E i \in Ids(tools) : tools[i].slug = resp.slug /\ tools[i].is_published
    /\ (resp.kind = "not_found" /\ resp.view = "blog_detail") =>
          ~\E i \in Ids(posts) : posts[i].slug = resp.slug /\ posts[i].is_published

\* C8 witness: the home page lists a tool while another tool is hidden.
HomeListsOneToolOfTwo ==
    /\ resp.kind = "home"
    /\ Len(tools) = 2
    /\ Len(resp.tools) = 1

RowsValid ==
    /\ \A i \in Ids(tools) :
          /\ tools[i].title /= << >> /\ Len(tools[i].title) <= ToolTitleLength
          /\ tools[i].summary /= << >> /\ Len(tools[i].summary) <= ToolSummaryLength
          /\ tools[i].content /= << >>
    /\ \A i \in Ids(posts) :
          /\ posts[i].title /= << >> /\ Len(posts[i].title) <= PostTitleLength
          /\ Len(posts[i].excerpt) <= PostExcerptLength
          /\ posts[i].content /= << >>

\* C9: a submission that fails validation is answered with at least one
\* message and changes no row; every row persisted has a title within its
\* limit, a content, and a summary or excerpt within its limit.
ValidationGuardsStore ==
    /\ [](RowsValid /\ (resp.kind = "form" => resp.errors /= << >>))
    /\ [][(resp' /= resp /\ resp'.kind = "form") => (tools' = tools /\ posts' = posts)]_vars

\* C9 witness: a submission was refused with several messages while the
\* tables hold rows.
RefusedWithSeveralMessages ==
    /\ resp.kind = "form"
    /\ Len(resp.errors) > 1
    /\ Len(tools) > 0
    /\ Len(posts) > 0

LogOf(kind, id) == toggle_log[kind][id]

\* C10 (amended): after exactly two toggles of an entity that ran one after
\* the other, its flag is the one it was created with.
TwoSequentialTogglesRestore ==
    \A kind \in Kinds : \A id \in Ids(Table(kind)) :
        (LogOf(kind, id).started = 2 /\ LogOf(kind, id).done = 2
            /\ ~LogOf(kind, id).overlapped)
            => Table(kind)[id].is_published

\* C10 witness: two toggles of one tool ran one after the other.
TwoSequentialTogglesDone ==
    \E id \in Ids(tools) :
        LogOf("Tool", id).started = 2 /\ LogOf("Tool", id).done = 2
            /\ ~LogOf("Tool", id).overlapped

\* C10 (as claimed): after exactly two toggles of an entity, overlapping or
\* not, its flag is the one it was created with.
TwoTogglesRestore ==
    \A kind \in Kinds : \A id \in Ids(Table(kind)) :
        (LogOf(kind, id).started = 2 /\ LogOf(kind, id).done = 2)
            => Table(kind)[id].is_published

=============================================================================
